---- MODULE Spec2Model ----
(***************************************************************************)
(* The User model of app/models/User.js: a mongoose schema with five       *)
(* statics (createUser, deleteUser, readUser, readUsers, updateUser), a    *)
(* toObject transform and a unique index on username.  The collection is   *)
(* the state; every static is one action per store round trip, so          *)
(* createUser, which awaits findOne and then save, is two actions.         *)
(***************************************************************************)
EXTENDS Integers, Sequences, FiniteSets, TLC

\* ---------------------------------------------------------------- bounds
\* Number of documents that are ever saved (ObjectIds 1..MaxId).
MaxId == 2
\* Last value of the store clock (Date.now()).
MaxClock == 1
\* Largest skip and limit a caller passes to readUsers.
MaxSkip == 3
MaxLimit == 2

Callers == {"c1", "c2"}
Usernames == {"alice", "bob"}
Names == {"Ann", "Bea"}

\* A field that an update document does not mention.
Absent == "absent"

VARIABLES
    store,      \* the users collection: a set of documents
    nextId,     \* the next ObjectId the driver generates
    now,        \* the clock the timestamps plugin reads
    pc,         \* per caller: "idle", or "save" between createUser's two awaits
    newUser,    \* per caller: the document createUser is about to save
    last,       \* the outcome of the call that completed most recently
    deleted,    \* history: [id, username] of removed records, no createUser step since
    deletedKey, \* history: as deleted, and no successful rename since either
    pg          \* the caller that pages through readUsers

vars == <<store, nextId, now, pc, newUser, last, deleted, deletedKey, pg>>

\* ---------------------------------------------------------------- schema
\* userSchema with timestamps: true and versionKey: false.
Doc(id, username, name, created, updated) ==
    [_id |-> id, username |-> username, name |-> name,
     createdAt |-> created, updatedAt |-> updated]

\* The document no caller has constructed yet.
NoDoc == Doc(0, Absent, Absent, 0, 0)

\* An update document over the schema paths a caller patches.
Patches == [username : Usernames \cup {Absent}, name : Names \cup {Absent}]

PatchFields(patch) == {f \in {"username", "name"} : patch[f] # Absent}

\* The value of a path that a document does not have.
Undefined == 0

\* userSchema.options.toObject.transform: ret.id = ret._id, then _id and __v
\* are deleted; every other path of the document is kept as it is.
toObjectKeepsKey(doc) ==
    [f \in DOMAIN doc \cup {"id"} |->
        IF f = "id"
        THEN IF "_id" \in DOMAIN doc THEN doc._id ELSE Undefined
        ELSE doc[f]]

toObject(doc) ==
    [f \in (DOMAIN doc \ {"_id", "__v"}) \cup {"id"} |->
        IF f = "id"
        THEN IF "_id" \in DOMAIN doc THEN doc._id ELSE Undefined
        ELSE doc[f]]

\* APIError(status, title, message): the status and the key the message carries.
APIError(op, status, key, arg) ==
    [op |-> op, status |-> status, key |-> key, arg |-> arg, value |-> <<>>]

\* A store error that the static does not catch (E11000 duplicate key).
StoreError(op, key, arg) ==
    [op |-> op, status |-> "DuplicateKey", key |-> key, arg |-> arg, value |-> <<>>]

\* What a static returns: the call (its key and other argument) and the records.
Returned(op, key, arg, records) ==
    [op |-> op, status |-> "ok", key |-> key, arg |-> arg, value |-> records]

NoCall ==
    [op |-> "none", status |-> "none", key |-> Absent, arg |-> Absent, value |-> <<>>]

\* ---------------------------------------------------------------- store
\* findOne(query): the matching documents; the caller tests for emptiness.
findOneNothing(coll, field, v) == {}

findOne(coll, field, v) == {d \in coll : d[field] = v}

\* createUser's pre-check: this.findOne({ username: newUser.username }).
duplicateUnchecked(coll, username) == {}

duplicate(coll, username) == findOne(coll, "username", username)

\* userSchema.index({ username: 1 }, { unique: true }): the write that leaves
\* doc in the collection is accepted iff no other document has its username.
UniqueIndexNoCheck(coll, doc) == TRUE

UniqueIndexAccepts(coll, doc) ==
    \A d \in coll : d._id # doc._id => d.username # doc.username

\* Model.prototype.save with timestamps: createdAt = updatedAt = now.
Stamped(doc, t) == [doc EXCEPT !.createdAt = t, !.updatedAt = t]

\* findOneAndUpdate(filter, update, {new: true}): mongoose casts the update
\* to $set of its paths and the timestamps plugin adds updatedAt.
ApplyUpdateReplace(doc, patch, t) ==
    [doc EXCEPT !.username = patch.username, !.name = patch.name, !.updatedAt = t]

ApplyUpdateKeepsUsername(doc, patch, t) ==
    [doc EXCEPT !.name = IF patch.name = Absent THEN @ ELSE patch.name,
                !.updatedAt = t]

ApplyUpdate(doc, patch, t) ==
    [doc EXCEPT !.username = IF patch.username = Absent THEN @ ELSE patch.username,
                !.name = IF patch.name = Absent THEN @ ELSE patch.name,
                !.updatedAt = t]

\* What findOneAndUpdate does when the filter matches nothing: no upsert.
OnMissUpsert(coll, username, patch, id, t) ==
    coll \cup {Stamped(ApplyUpdate(Doc(id, username, Absent, t, t), patch, t), t)}

OnMiss(coll, username, patch, id, t) == coll

\* findOneAndRemove(filter): the collection without the matched document.
RemoveKeeps(coll, doc) == coll

RemoveAll(coll, doc) == {}

Remove(coll, doc) == coll \ {doc}

\* ---------------------------------------------------------------- queries
\* The order of String values under sort({ name: 1 }).
NameOrder == <<"Ann", "Bea">>

NameRank(n) == CHOOSE i \in 1..Len(NameOrder) : NameOrder[i] = n

\* A pre-formatted query: {} or an equality on one path.
Filters ==
    {[field |-> "all", value |-> Absent]}
    \cup {[field |-> "name", value |-> n] : n \in Names}
    \cup {[field |-> "username", value |-> u] : u \in Usernames}

Matches(doc, filter) == filter.field = "all" \/ doc[filter.field] = filter.value

\* this.find(query, fields): a Query that has no options yet.
Find(filter) == [filter |-> filter, skip |-> 0, limit |-> 0, sort |-> FALSE]

\* Query.prototype.skip / limit / sort set an option; the order of the calls
\* is not part of the command that exec sends.
QSkip(q, n) == [q EXCEPT !.skip = n]

QLimit(q, n) == [q EXCEPT !.limit = n]

QSort(q) == [q EXCEPT !.sort = TRUE]

\* All orders of a set of documents.
Orders(S) ==
    {s \in [1..Cardinality(S) -> S] : \A d \in S : \E i \in DOMAIN s : s[i] = d}

\* The orders the server may produce: ascending by name when sorted, with
\* documents of equal name in any order (the server does not fix it).
ServerOrders(S, sorted) ==
    {s \in Orders(S) :
        sorted => \A i, j \in DOMAIN s :
                     i < j => NameRank(s[i].name) <= NameRank(s[j].name)}

\* cursor.skip(n).
Skipped(s, n) == SubSeq(s, n + 1, Len(s))

\* cursor.limit(n): a limit of 0 is no limit.
Limited(s, n) == IF n = 0 \/ n >= Len(s) THEN s ELSE SubSeq(s, 1, n)

\* Query.prototype.exec: the documents the find command can return.
Exec(coll, q) ==
    {Limited(Skipped(s, q.skip), q.limit) :
        s \in ServerOrders({d \in coll : Matches(d, q.filter)}, q.sort)}

\* readUsers(query, fields, skip, limit): the possible return values.
readUsersResults(coll, filter, skip, limit) ==
    {[i \in DOMAIN users |-> toObject(users[i])] :
        users \in Exec(coll, QSort(QLimit(QSkip(Find(filter), skip), limit)))}

\* ---------------------------------------------------------------- statics
TypeOK ==
    /\ nextId \in 1..(MaxId + 1)
    /\ now \in 0..MaxClock
    /\ pc \in [Callers -> {"idle", "save"}]
    /\ \A d \in store : d._id \in 1..MaxId /\ d.createdAt <= d.updatedAt

PagerIdle ==
    [pc |-> "idle", filter |-> [field |-> "all", value |-> Absent],
     limit |-> 0, skip |-> 0, acc |-> <<>>]

Init ==
    /\ store = {}
    /\ nextId = 1
    /\ now = 0
    /\ pc = [c \in Callers |-> "idle"]
    /\ newUser = [c \in Callers |-> NoDoc]
    /\ last = NoCall
    /\ deleted = {}
    /\ deletedKey = {}
    /\ pg = PagerIdle

\* The _id of the n-th document constructed: the driver's ObjectId generator
\* gives every document a value it has not given before.
NewObjectIdReused(n) == 1

NewObjectId(n) == n

\* createUser, lines 34-41: findOne looks for a duplicate and a hit throws
\* 409.  The caller constructed the document, a fresh _id with it; the _id of
\* a document that is thrown away here is never seen, so only the documents
\* that go on to save take one of the MaxId identifiers.
createUserFind(c, username, name) ==
    /\ pc[c] = "idle"
    /\ IF duplicate(store, username) # {}
       THEN /\ last' = APIError("createUser", "Conflict", username, Absent)
            /\ UNCHANGED <<pc, newUser, nextId>>
       ELSE /\ nextId <= MaxId
            /\ nextId' = nextId + 1
            /\ pc' = [pc EXCEPT ![c] = "save"]
            /\ newUser' = [newUser EXCEPT ![c] = Doc(NewObjectId(nextId), username, name, 0, 0)]
            /\ UNCHANGED last
    /\ deleted' = {}
    /\ deletedKey' = {}
    /\ UNCHANGED <<store, now, pg>>

\* createUser, lines 42-43: save inserts the document; the unique index may
\* reject the insert, and that error is not caught.
createUserSave(c) ==
    /\ pc[c] = "save"
    /\ LET doc == Stamped(newUser[c], now) IN
        IF UniqueIndexAccepts(store, doc)
        THEN /\ store' = store \cup {doc}
             /\ last' = Returned("createUser", doc.username, Absent, <<toObject(doc)>>)
        ELSE /\ store' = store
             /\ last' = StoreError("createUser", doc.username, Absent)
    /\ pc' = [pc EXCEPT ![c] = "idle"]
    /\ newUser' = [newUser EXCEPT ![c] = NoDoc]
    /\ deleted' = {}
    /\ deletedKey' = {}
    /\ UNCHANGED <<nextId, now, pg>>

\* A caller that is not inside createUser is free to make a call; the calls
\* below are one store round trip each, so which caller makes them is not
\* part of the state.
SomeCallerIdle == {c \in Callers : pc[c] = "idle"} # {}

\* deleteUser, lines 50-56: one findOneAndRemove.
deleteUser(username) ==
    /\ SomeCallerIdle
    /\ IF findOne(store, "username", username) = {}
       THEN /\ last' = APIError("deleteUser", "NotFound", username, Absent)
            /\ UNCHANGED <<store, deleted, deletedKey>>
       ELSE \E doc \in findOne(store, "username", username) :
            /\ store' = Remove(store, doc)
            /\ last' = Returned("deleteUser", username, Absent, <<toObject(doc)>>)
            /\ deleted' = deleted \cup {[id |-> doc._id, username |-> username]}
            /\ deletedKey' = deletedKey \cup {[id |-> doc._id, username |-> username]}
    /\ UNCHANGED <<nextId, now, pc, newUser, pg>>

\* readUser, lines 64-68: what the call throws or returns against coll.
readUserOutcomes(coll, id) ==
    IF findOne(coll, "_id", id) = {}
    THEN {APIError("readUser", "NotFound", id, Absent)}
    ELSE {Returned("readUser", id, Absent, <<toObject(doc)>>) :
            doc \in findOne(coll, "_id", id)}

\* readUser, lines 62-69: one findOne by _id.
readUser(id) ==
    /\ SomeCallerIdle
    /\ last' \in readUserOutcomes(store, id)
    /\ UNCHANGED <<store, nextId, now, pc, newUser, deleted, deletedKey, pg>>

\* updateUser, lines 95-103: one findOneAndUpdate with {new: true}; the unique
\* index may reject the write, and that error is not caught.
updateUser(username, patch) ==
    /\ SomeCallerIdle
    /\ IF findOne(store, "username", username) = {}
       THEN /\ store' = OnMiss(store, username, patch, nextId, now)
            /\ last' = APIError("updateUser", "NotFound", username, patch)
            /\ UNCHANGED <<deletedKey>>
       ELSE \E doc \in findOne(store, "username", username) :
            LET updated == ApplyUpdate(doc, patch, now) IN
            IF UniqueIndexAccepts(store, updated)
            THEN /\ store' = (store \ {doc}) \cup {updated}
                 /\ last' = Returned("updateUser", username, patch, <<toObject(updated)>>)
                 /\ deletedKey' = IF updated.username # doc.username
                                  THEN {} ELSE deletedKey
            ELSE /\ store' = store
                 /\ last' = StoreError("updateUser", username, patch)
                 /\ UNCHANGED deletedKey
    /\ UNCHANGED <<nextId, now, pc, newUser, deleted, pg>>

\* Date.now() advances between store operations, or does not.
Tick ==
    /\ now < MaxClock
    /\ now' = now + 1
    /\ UNCHANGED <<store, nextId, pc, newUser, last, deleted, deletedKey, pg>>

Next ==
    \/ \E c \in Callers, u \in Usernames, n \in Names : createUserFind(c, u, n)
    \/ \E c \in Callers : createUserSave(c)
    \/ \E u \in Usernames : deleteUser(u)
    \/ \E id \in 1..MaxId : readUser(id)
    \/ \E u \in Usernames, patch \in Patches : updateUser(u, patch)
    \/ Tick

Spec == Init /\ [][Next]_vars

\* ---------------------------------------------------------------- paging
\* The data sets readUsers is read against: collections that createUser
\* calls leave behind (distinct _id, distinct username, any names).
DataSets ==
    {S \in SUBSET {Doc(i, u, n, 0, 0) : i \in 1..MaxId, u \in Usernames, n \in Names} :
        /\ \A d, e \in S : d # e => d._id # e._id /\ d.username # e.username
        /\ \A d \in S : d._id <= Cardinality(S)}

InitPage ==
    /\ store \in DataSets
    /\ nextId = MaxId + 1
    /\ now = 0
    /\ pc = [c \in Callers |-> "idle"]
    /\ newUser = [c \in Callers |-> NoDoc]
    /\ last = NoCall
    /\ deleted = {}
    /\ deletedKey = {}
    /\ pg = PagerIdle

\* readUsers, lines 78-88: one find with skip, limit and sort.
readUsers(filter, skip, limit) ==
    /\ \E users \in readUsersResults(store, filter, skip, limit) :
        last' = Returned("readUsers", filter,
                         [skip |-> skip, limit |-> limit], users)
    /\ UNCHANGED <<store, nextId, now, pc, newUser, deleted, deletedKey, pg>>

\* A caller starts to read every match of filter in pages of limit records.
pageStart(filter, limit) ==
    /\ pg.pc # "paging"
    /\ pg' = [pc |-> "paging", filter |-> filter, limit |-> limit,
              skip |-> 0, acc |-> <<>>]
    /\ UNCHANGED <<store, nextId, now, pc, newUser, last, deleted, deletedKey>>

\* The caller reads the page at its skip; an empty page ends the reading.
pageNext ==
    /\ pg.pc = "paging"
    /\ \E users \in readUsersResults(store, pg.filter, pg.skip, pg.limit) :
        pg' = IF users = <<>>
              THEN [pg EXCEPT !.pc = "done"]
              ELSE [pg EXCEPT !.skip = @ + pg.limit, !.acc = @ \o users]
    /\ UNCHANGED <<store, nextId, now, pc, newUser, last, deleted, deletedKey>>

NextRead ==
    \E f \in Filters, k \in 0..MaxSkip, n \in 0..MaxLimit : readUsers(f, k, n)

SpecRead == InitPage /\ [][NextRead]_vars

NextPage ==
    \/ \E f \in Filters, n \in 1..MaxLimit : pageStart(f, n)
    \/ pageNext

SpecPage == InitPage /\ [][NextPage]_vars

\* ---------------------------------------------------------------- fields
\* The fields argument of readUsers: none, { username: 1 } or { _id: 0 }.
Projections == {"all", "username", "noId"}

\* this.find(query, fields): the paths of a matched document that the store
\* returns; an inclusion keeps _id, an exclusion of _id drops it.
Select(doc, fields) ==
    [f \in CASE fields = "all" -> DOMAIN doc
              [] fields = "username" -> {"_id", "username"}
              [] fields = "noId" -> DOMAIN doc \ {"_id"} |-> doc[f]]

\* readUsers(query, fields, skip, limit) with a projection.
readUsersFields(coll, filter, fields, skip, limit) ==
    {[i \in DOMAIN users |-> toObject(Select(users[i], fields))] :
        users \in Exec(coll, QSort(QLimit(QSkip(Find(filter), skip), limit)))}

\* readUsers, lines 78-88, called with a projection and no paging.
readUsersSelect(filter, fields) ==
    /\ SomeCallerIdle
    /\ \E users \in readUsersFields(store, filter, fields, 0, 0) :
        last' = Returned("readUsers", filter,
                         [skip |-> 0, limit |-> 0, fields |-> fields], users)
    /\ UNCHANGED <<store, nextId, now, pc, newUser, deleted, deletedKey, pg>>

\* All five statics, readUsers with its projection (its filters are read
\* against the data sets of SpecRead).
NextFields ==
    \/ Next
    \/ \E fields \in Projections :
            readUsersSelect([field |-> "all", value |-> Absent], fields)

SpecFields == Init /\ [][NextFields]_vars

\* An update document that names a path the store or the timestamps plugin
\* owns: { _id: v }, or { createdAt: v } or { updatedAt: v } with v the
\* earliest time.
OwnedUpdates ==
    {[path |-> "_id", value |-> i] : i \in 1..MaxId}
    \cup {[path |-> p, value |-> 0] : p \in {"createdAt", "updatedAt"}}

\* The store refuses an update that would change _id.
ImmutableIdUnchecked(doc, upd) == TRUE

ImmutableIdAccepts(doc, upd) == upd.path = "_id" => upd.value = doc._id

ImmutableError(op, key, arg) ==
    [op |-> op, status |-> "ImmutableField", key |-> key, arg |-> arg, value |-> <<>>]

\* findOneAndUpdate with timestamps: true: the plugin drops a createdAt that
\* the update names and sets updatedAt to now, also when the update names it.
ApplyOwnedAsGiven(doc, upd, t) ==
    [doc EXCEPT ![upd.path] = upd.value]

ApplyOwned(doc, upd, t) ==
    [doc EXCEPT !._id = IF upd.path = "_id" THEN upd.value ELSE @,
                !.updatedAt = t]

\* updateUser, lines 95-103, with an update document of OwnedUpdates.
updateUserOwned(username, upd) ==
    /\ SomeCallerIdle
    /\ LET arg == [username |-> Absent, name |-> Absent,
                   path |-> upd.path, value |-> upd.value] IN
       IF findOne(store, "username", username) = {}
       THEN /\ store' = store
            /\ last' = APIError("updateUser", "NotFound", username, arg)
       ELSE \E doc \in findOne(store, "username", username) :
            IF ImmutableIdAccepts(doc, upd)
            THEN /\ store' = (store \ {doc}) \cup {ApplyOwned(doc, upd, now)}
                 /\ last' = Returned("updateUser", username, arg,
                                     <<toObject(ApplyOwned(doc, upd, now))>>)
            ELSE /\ store' = store
                 /\ last' = ImmutableError("updateUser", username, arg)
    /\ UNCHANGED <<nextId, now, pc, newUser, deleted, deletedKey, pg>>

\* createUser, deleteUser, readUser and updateUser with every kind of update
\* document.
NextOwned ==
    \/ Next
    \/ \E u \in Usernames, upd \in OwnedUpdates : updateUserOwned(u, upd)

SpecOwned == Init /\ [][NextOwned]_vars

\* ---------------------------------------------------------------- claims
Live(coll, username) == \E d \in coll : d.username = username

\* C1: in every reachable state no two live records have the same username.
C1_UsernameUnique ==
    \A d, e \in store : d.username = e.username => d = e

\* C1 witness: two live records, and the unique index has just rejected a
\* write that would have duplicated a username.
C1_Witness ==
    /\ Cardinality(store) = 2
    /\ last.status = "DuplicateKey"

\* C2: of concurrent createUser calls with one username at most one succeeds
\* and every createUser call that fails, at the pre-check or at the insert,
\* fails with Conflict.
C2_CreateFailsWithConflict ==
    /\ \A d, e \in store : d.username = e.username => d._id = e._id
    /\ last.op = "createUser" => last.status \in {"ok", "Conflict"}

\* C3: createUser with the username of a live record, while no other call is
\* in progress, fails with Conflict carrying that username and leaves the
\* collection as it was.
C3_DuplicateCreateConflicts ==
    [][\A c \in Callers, u \in Usernames :
          ((\A k \in Callers : pc[k] = "idle") /\ Live(store, u)
              /\ \E n \in Names : createUserFind(c, u, n))
          => /\ last' = APIError("createUser", "Conflict", u, Absent)
             /\ store' = store
             /\ pc'[c] = "idle"]_vars

\* C3 witness: a createUser call has failed with Conflict while the record
\* with its username is live.
C3_Witness ==
    /\ last.op = "createUser"
    /\ last.status = "Conflict"
    /\ Live(store, last.key)
    /\ \A k \in Callers : pc[k] = "idle"

\* C4: updateUser(u, patch) whose patch renames to the username of another
\* live record is rejected with Conflict and changes no record.
C4_RenameCollisionConflicts ==
    [][\A u \in Usernames, patch \in Patches :
          (Live(store, u) /\ patch.username \notin {Absent, u}
              /\ Live(store, patch.username)
              /\ updateUser(u, patch))
          => /\ last'.status = "Conflict"
             /\ store' = store]_vars

\* C5: a successful updateUser changes, in the record of u, only the fields
\* of the patch and updatedAt; every other field and every other record keep
\* their values, and the post-update record is returned.  (The call's
\* username and patch are read from the outcome, where updateUser puts them.)
C5_UpdateFrame ==
    [][(last'.op = "updateUser" /\ last'.status = "ok"
          /\ updateUser(last'.key, last'.arg))
       => \E old \in store, new \in store' :
             /\ old.username = last'.key
             /\ new._id = old._id
             /\ new.createdAt = old.createdAt
             /\ \A f \in {"username", "name"} \ PatchFields(last'.arg) :
                   new[f] = old[f]
             /\ \A f \in PatchFields(last'.arg) : new[f] = last'.arg[f]
             /\ store' \ {new} = store \ {old}
             /\ last'.value = <<toObject(new)>>]_vars

\* C5 witness: an update of name alone has succeeded at a later time than
\* the creation, next to another live record.
C5_Witness ==
    /\ last.op = "updateUser"
    /\ last.status = "ok"
    /\ last.arg.username = Absent
    /\ last.arg.name # Absent
    /\ last.value[1].updatedAt > last.value[1].createdAt
    /\ Cardinality(store) = 2

\* C6: updateUser(u, patch) with no live record of username u fails with
\* NotFound carrying u and leaves the collection as it was.  (The call's
\* username and patch are read from the outcome, where updateUser puts them.)
C6_UpdateMissingNotFound ==
    [][(last'.op = "updateUser" /\ ~Live(store, last'.key)
          /\ updateUser(last'.key, last'.arg))
       => /\ last'.status = "NotFound"
          /\ last'.value = <<>>
          /\ store' = store]_vars

\* C6 witness: an updateUser with a non-empty patch has failed with NotFound
\* while another record is live.
C6_Witness ==
    /\ last.op = "updateUser"
    /\ last.status = "NotFound"
    /\ PatchFields(last.arg) # {}
    /\ store # {}
    /\ ~Live(store, last.key)

\* C7 as stated: after deleteUser(username) succeeded for the record id, and
\* with no createUser since, readUser(id) and deleteUser(username) find
\* nothing (fail with NotFound).
C7_DeletedStaysGone ==
    \A g \in deleted :
        /\ findOne(store, "_id", g.id) = {}
        /\ findOne(store, "username", g.username) = {}

\* C7 amended: after deleteUser(username) succeeded for the record id, and
\* with no createUser and no username-changing updateUser since, readUser(id)
\* and deleteUser(username) find nothing (fail with NotFound).
C7_DeletedStaysGoneNoRename ==
    \A g \in deletedKey :
        /\ findOne(store, "_id", g.id) = {}
        /\ findOne(store, "username", g.username) = {}

\* C7 witness: after a delete, with another record live, the second
\* deleteUser of the same username has failed with NotFound.
C7_Witness ==
    /\ last.op = "deleteUser"
    /\ last.status = "NotFound"
    /\ \E g \in deletedKey : g.username = last.key
    /\ store # {}

\* C8: a successful deleteUser(u) removes the one record of username u and
\* no other, and returns that record as it was in the collection right
\* before the removal.
C8_DeleteExactlyOne ==
    [][\A u \in Usernames :
          (Live(store, u) /\ deleteUser(u))
          => \E d \in store :
                /\ d.username = u
                /\ store' = store \ {d}
                /\ last' = Returned("deleteUser", u, Absent, <<toObject(d)>>)]_vars

\* C8 witness: a delete has returned a record that an earlier update had
\* changed, and another record is still live.
C8_Witness ==
    /\ last.op = "deleteUser"
    /\ last.status = "ok"
    /\ last.value[1].updatedAt > last.value[1].createdAt
    /\ store # {}

\* The normalized records that match a filter.
Matching(coll, filter) == {toObject(d) : d \in {e \in coll : Matches(e, filter)}}

AscendingByName(s) ==
    \A i, j \in DOMAIN s : i < j => NameRank(s[i].name) <= NameRank(s[j].name)

\* C9: over a fixed data set, the pages read at skip = 0, N, 2N, ... up to the
\* first empty page hold every matching record exactly once, ascending by name.
C9_PagesCoverMatches ==
    pg.pc = "done" =>
        /\ \A r \in Matching(store, pg.filter) :
              Cardinality({i \in DOMAIN pg.acc : pg.acc[i] = r}) = 1
        /\ \A i \in DOMAIN pg.acc : pg.acc[i] \in Matching(store, pg.filter)
        /\ AscendingByName(pg.acc)

\* The first n elements of s, all of s when it has fewer.
AtMost(s, n) == IF n < Len(s) THEN SubSeq(s, 1, n) ELSE s

\* C10: readUsers returns the matching records sorted ascending by name,
\* without the first skip and then cut to at most limit, for every
\* non-negative skip and limit.
C10_SortSkipLimit ==
    last.op = "readUsers" =>
        \E s \in Orders(Matching(store, last.key)) :
            /\ AscendingByName(s)
            /\ last.value = AtMost(Skipped(s, last.arg.skip), last.arg.limit)

\* C11: readUser of the id that a successful createUser returned, with no
\* mutation in between, returns the record createUser returned, equal in
\* every field.
C11_ReadAfterCreate ==
    (last.op = "createUser" /\ last.status = "ok")
    => readUserOutcomes(store, last.value[1].id)
          = {Returned("readUser", last.value[1].id, Absent, last.value)}

\* C11 witness: createUser has just returned a record, at a later time than
\* the creation of another live record.
C11_Witness ==
    /\ last.op = "createUser"
    /\ last.status = "ok"
    /\ Cardinality(store) = 2
    /\ last.value[1].createdAt > 0

\* C12 as stated: every record returned by any of the five statics, for any
\* projection, has the identifier in id, no _id and no version field.
C12_ReturnedRecordsNormalized ==
    \A i \in DOMAIN last.value :
        /\ "_id" \notin DOMAIN last.value[i]
        /\ "__v" \notin DOMAIN last.value[i]
        /\ "id" \in DOMAIN last.value[i]
        /\ last.value[i].id \in 1..MaxId

\* C12 amended: every returned record has no _id and no version field, and
\* has the identifier in id unless the projection of readUsers excluded _id,
\* in which case id is undefined.
C12_ReturnedRecordsNormalizedUnlessExcluded ==
    \A i \in DOMAIN last.value :
        /\ "_id" \notin DOMAIN last.value[i]
        /\ "__v" \notin DOMAIN last.value[i]
        /\ "id" \in DOMAIN last.value[i]
        /\ IF last.op = "readUsers" /\ last.arg.fields = "noId"
           THEN last.value[i].id = Undefined
           ELSE last.value[i].id \in 1..(nextId - 1)

\* C12 witness: readUsers with an inclusion projection has returned two
\* records.
C12_Witness ==
    /\ last.op = "readUsers"
    /\ last.arg.fields = "username"
    /\ Len(last.value) = 2

\* The step is a successful updateUser call, with either kind of update
\* document (the call's arguments are read from its outcome).
UpdateStep ==
    /\ last'.op = "updateUser"
    /\ last'.status = "ok"
    /\ IF "path" \in DOMAIN last'.arg
       THEN updateUserOwned(last'.key,
                            [path |-> last'.arg.path, value |-> last'.arg.value])
       ELSE updateUser(last'.key, last'.arg)

Ids(coll) == {d._id : d \in coll}

\* C13: a record gets its id once, from createUser, and keeps it while it is
\* live: updateUser, for any patch, changes neither the id of the record it
\* updates nor the id of any other record.
C13_IdAssignedOnce ==
    [][/\ UpdateStep =>
            \E old \in store, new \in store' :
                /\ old.username = last'.key
                /\ new._id = old._id
                /\ store' \ {new} = store \ {old}
       /\ \A d \in store' :
            d._id \notin Ids(store) =>
                \E c \in Callers :
                    /\ pc[c] = "save" /\ pc'[c] = "idle"
                    /\ newUser[c]._id = d._id
       /\ Ids(store') \ Ids(store) = {} \/ last'.op = "createUser"]_vars

\* C13 witness: an updateUser whose update document names _id has succeeded
\* next to another live record.
C13_Witness ==
    /\ last.op = "updateUser"
    /\ last.status = "ok"
    /\ "path" \in DOMAIN last.arg
    /\ last.arg.path = "_id"
    /\ Cardinality(store) = 2

C15_OneStoreOperationPerCall ==
    \A c \in Callers : pc[c] = "idle"

\* C15 amended: readUser, readUsers, updateUser and deleteUser are one store
\* operation per call; createUser is two, a findOne that finds no record of
\* the username and changes nothing, then the save, and other callers' store
\* operations can take place between the two.
C15_OneStoreOperationExceptCreate ==
    [][/\ \A c \in Callers :
            (pc[c] = "idle" /\ pc'[c] = "save")
            => /\ ~Live(store, newUser'[c].username)
               /\ store' = store
               /\ last' = last
       /\ \A c \in Callers :
            (pc[c] = "save" /\ pc'[c] = "idle")
            => /\ last'.op = "createUser"
               /\ last'.status \in {"ok", "DuplicateKey"}
               /\ last'.key = newUser[c].username
       /\ (last' # last /\ last'.op \in {"readUser", "readUsers", "updateUser", "deleteUser"})
            => pc' = pc]_vars

\* C15 witness: a createUser call is between its findOne and its save, and a
\* createUser that constructed its document later has already saved it.
C15_Witness ==
    /\ last.op = "createUser"
    /\ last.status = "ok"
    /\ \E c \in Callers :
        /\ pc[c] = "save"
        /\ newUser[c]._id < last.value[1].id

\* The step is a deleteUser call (its argument is read from its outcome).
DeleteStep == last'.op = "deleteUser" /\ deleteUser(last'.key)

\* C16 as stated: of the deleteUser calls with one username that run with no
\* createUser among them, the first with a live record succeeds and removes
\* it, every later one fails with NotFound, and no record is returned twice.
C16_ConcurrentDeletesOneWinner ==
    [][DeleteStep =>
        /\ Live(store, last'.key) => (last'.status = "ok" /\ ~Live(store', last'.key))
        /\ (\E g \in deleted : g.username = last'.key) => last'.status = "NotFound"
        /\ last'.status = "ok" => \A g \in deleted : g.id # last'.value[1].id]_vars

\* C16 amended: of the deleteUser calls with one username that run with no
\* createUser and no username-changing updateUser among them, the first with
\* a live record succeeds and removes it, every later one fails with NotFound,
\* and no record is returned twice.
C16_ConcurrentDeletesOneWinnerNoRename ==
    [][DeleteStep =>
        /\ Live(store, last'.key) => (last'.status = "ok" /\ ~Live(store', last'.key))
        /\ (\E g \in deletedKey : g.username = last'.key) => last'.status = "NotFound"
        /\ last'.status = "ok" => \A g \in deleted : g.id # last'.value[1].id]_vars

\* C16 witness: two records were deleted and a further deleteUser of one of
\* their usernames has failed with NotFound.
C16_Witness ==
    /\ last.op = "deleteUser"
    /\ last.status = "NotFound"
    /\ Cardinality(deletedKey) = 2
    /\ \E g \in deletedKey : g.username = last.key

\* An id that was given out and belongs to no live record and to no document
\* waiting for its save.
DeadIn(coll, pending, next, id) ==
    /\ id \in 1..(next - 1)
    /\ findOne(coll, "_id", id) = {}
    /\ \A c \in Callers : pending[c]._id # id

Dead(id) == DeadIn(store, newUser, nextId, id)

RenamedState ==
    /\ last.op = "updateUser"
    /\ last.status = "ok"
    /\ "path" \notin DOMAIN last.arg
    /\ last.arg.username \notin {Absent, last.key}

\* C18: right after updateUser(u, {username: v}) succeeded with v # u for the
\* record id: updateUser(u, ...) and deleteUser(u) fail with NotFound,
\* createUser of u passes the duplicate check and its save is accepted,
\* createUser of v fails with Conflict, and readUser(id) returns the record
\* with username v.
C18_RenameMovesKey ==
    [][RenamedState =>
        /\ (last'.op = "updateUser" /\ last'.key = last.key
                /\ updateUser(last'.key, last'.arg))
            => last'.status = "NotFound"
        /\ (last'.op = "deleteUser" /\ last'.key = last.key
                /\ deleteUser(last'.key))
            => last'.status = "NotFound"
        /\ \A c \in Callers, n \in Names :
            /\ createUserFind(c, last.key, n)
                => /\ pc'[c] = "save"
                   /\ UniqueIndexAccepts(store', Stamped(newUser'[c], now'))
            /\ createUserFind(c, last.arg.username, n)
                => /\ last'.op = "createUser"
                   /\ last'.status = "Conflict"
        /\ last.value[1].username = last.arg.username
        /\ readUserOutcomes(store, last.value[1].id)
              = {Returned("readUser", last.value[1].id, Absent, last.value)}]_vars

\* C18 witness: the rename has succeeded on a record that was created at an
\* earlier time.
C18_Witness ==
    /\ RenamedState
    /\ last.value[1].createdAt < last.value[1].updatedAt

====
